---- MODULE Spec2Model ----
(***************************************************************************)
(* A model of amqp.connection.Connection (src/amqp/connection.py): the     *)
(* connect() handshake loop, the channel-0 method handlers with the        *)
(* capabilities negotiated at Start, the channel-id pool and registry,     *)
(* close(), collect() and heartbeat_tick().                                *)
(*                                                                         *)
(* One caller drives the Connection: an operation starts only when no      *)
(* other is in progress (pc = "idle").  connect() and close() span several *)
(* steps, one per drain_events of the handshake loop, of the wait for      *)
(* CloseOk.                                                                *)
(*                                                                         *)
(* Transport, Channel, ChannelBase (send_method, dispatch_method, wait)    *)
(* and the byte counting of method_framing are not part of connection.py;  *)
(* they are modelled at their interface.  bytes_sent and bytes_recv are    *)
(* kept as what heartbeat_tick sees of them: whether the previous sample   *)
(* is None, equal to the counter, or behind it.                            *)
(*                                                                         *)
(* Four variables describe the step that was just taken rather than the    *)
(* object: op (the call that returned and its outcome), frame (the frame   *)
(* blocking_read read), written (the frames handed to the frame writer,    *)
(* in order) and opened (the step created a Transport).  hs_phase         *)
(* observes the broker's side of the handshake grammar while connect()     *)
(* runs its handshake, is "Disconnected" once another call has been made,  *)
(* and is read by no action.                                               *)
(***************************************************************************)
EXTENDS Integers, Naturals, Sequences, FiniteSets, TLC

\* ------------------------------------------------------------ bounds
\* largest channel_max given to the constructor or offered in Tune
MaxChannelMax == 2
\* largest heartbeat given to the constructor or offered in Tune
MaxHeartbeat == 2
\* the frame_max a broker that states one offers in Tune
MaxFrameMax == 4096
\* the last second of the clock
MaxTime == 6

\* ------------------------------------------------------------ constants
DefaultChannelMax == 65535
DefaultFrameMax == 131072
\* Python's None where a number is expected
None == -1

VARIABLES
    client_heartbeat,     \* self.client_heartbeat
    client_properties,    \* self.client_properties: whether it has 'capabilities', and their keys
    channel_max,          \* self.channel_max
    frame_max,            \* self.frame_max
    heartbeat,            \* self.heartbeat (None until Tune)
    handshake_complete,   \* self._handshake_complete
    transport,            \* self._transport: "None", "connected", "closed"
    frame_writer,         \* self._frame_writer: 0 is None, 1 is a frame writer
    on_inbound_frame,     \* self._on_inbound_frame: 0 is None, 1 is a frame handler
    channels,             \* self.channels: <<[id, ch]>> in insertion order, <<>> is None
    _avail_channel_ids,   \* self._avail_channel_ids, an array('H'), stored packed (Pack)
    chan_id,              \* Channel objects: chan_id[h] is h's channel_id, 0 when h is no live Channel
    is_open,              \* Channel objects: is_open[h], set when the broker's Channel.OpenOk arrives
    last_heartbeat_sent,      \* self.last_heartbeat_sent
    last_heartbeat_received,  \* self.last_heartbeat_received
    prev_sent,            \* self.prev_sent against self.bytes_sent: "None", "equal", "behind"
    prev_recv,            \* self.prev_recv against self.bytes_recv: "None", "equal", "behind"
    now,                  \* monotonic(), in seconds
    pc,                   \* the call in progress: "idle", "connect" (its loop), "close" (its wait)
    op,                   \* the call that returned last and its outcome
    frame,                \* the frame read by the last step (NoFrame when it read none)
    written,              \* the frames written by the last step
    opened,               \* the last step created a Transport
    hs_phase              \* the handshake grammar's state for the current connect()

vars == <<client_heartbeat, client_properties, channel_max, frame_max, heartbeat, handshake_complete,
          transport, frame_writer, on_inbound_frame,
          channels, _avail_channel_ids, chan_id, is_open,
          last_heartbeat_sent, last_heartbeat_received, prev_sent, prev_recv, now,
          pc, op, frame, written, opened, hs_phase>>

conn_vars == <<client_heartbeat, client_properties, channel_max, frame_max, heartbeat, handshake_complete,
               transport, frame_writer, on_inbound_frame,
               channels, _avail_channel_ids, chan_id, is_open>>

\* the heartbeat timestamps and the clock
hb_vars == <<last_heartbeat_sent, last_heartbeat_received, now>>

\* ------------------------------------------------------------ byte counters
\* bytes_sent, bytes_recv grow with every frame written, read: a previous
\* sample that was equal to the counter is behind it afterwards
Behind(p) == IF p = "equal" THEN "behind" ELSE p

\* a call other than heartbeat_tick that has sent, received frames
Traffic(sent, received) ==
    /\ prev_sent' = IF sent THEN Behind(prev_sent) ELSE prev_sent
    /\ prev_recv' = IF received THEN Behind(prev_recv) ELSE prev_recv
    /\ UNCHANGED hb_vars

\* ------------------------------------------------------------ values
\* Channel objects: no more are alive at a time than the pool had ids
Handles == 1..MaxChannelMax

Method(m, a) == [method |-> m, args |-> a]
NoFrame == Method("None", <<>>)
NoOp == [name |-> "None", arg |-> None, result |-> "None", value |-> None]
Returned(n, a, r, v) == [name |-> n, arg |-> a, result |-> r, value |-> v]

\* An array('H') is stored as its longest leading run of consecutive
\* descending numbers, range(from, to - 1, -1), and the rest of its items;
\* from = 0 when it is empty.  Unpack gives the items, Pack stores them.
\* array('H', range(n, 0, -1))
RangeDown(n) == [from |-> n, to |-> 1, rest |-> <<>>]
Unpack(a) ==
    IF a.from = 0 THEN a.rest
    ELSE [i \in 1..(a.from - a.to + 1) |-> a.from + 1 - i] \o a.rest
Pack(s) ==
    IF Len(s) = 0 THEN [from |-> 0, to |-> 1, rest |-> <<>>]
    ELSE LET k == CHOOSE k \in 1..Len(s) :
                      /\ k < Len(s) => s[k + 1] # s[k] - 1
                      /\ \A i \in 1..k : s[i] = s[1] + 1 - i
         IN [from |-> s[1], to |-> s[k], rest |-> SubSeq(s, k + 1, Len(s))]

\* the items of self._avail_channel_ids, in order
avail_channel_ids == Unpack(_avail_channel_ids)

\* a or b, for numbers (0 and None are falsy)
Or(a, b) == IF a = None \/ a = 0 THEN b ELSE a

SeqToSet(s) == {s[i] : i \in 1..Len(s)}

ChannelsNone == <<>>
\* no key is found in self.channels
NoRegisteredIds == {}
RegisteredIds == {channels[i].id : i \in 1..Len(channels)}
OpenIds == RegisteredIds \ {0}
RegistryEntry(cid) == CHOOSE e \in SeqToSet(channels) : e.id = cid

\* NEGOTIATE_CAPABILITIES: its keys, every one of them mapped to True
negotiate_capabilities ==
    {"consumer_cancel_notify", "connection.blocked", "authentication_failure_close"}
\* client_properties without the key 'capabilities' (library_properties has none)
NoCapabilities == [present |-> FALSE, capabilities |-> {}]
\* client_properties with the capabilities of cap, every one of them True
Capabilities(cap) == [present |-> TRUE, capabilities |-> cap]

\* ------------------------------------------------------------ __init__
ConnectionInit(channel_max_arg, frame_max_arg, heartbeat_arg) ==
    /\ client_heartbeat = heartbeat_arg
    /\ client_properties = NoCapabilities
    /\ channel_max = Or(channel_max_arg, DefaultChannelMax)
    /\ frame_max = Or(frame_max_arg, DefaultFrameMax)
    /\ heartbeat = None
    /\ handshake_complete = FALSE
    /\ transport = "None"
    /\ frame_writer = 0
    /\ on_inbound_frame = 0
    /\ channels = <<[id |-> 0, ch |-> 0]>>
    /\ _avail_channel_ids = RangeDown(Or(channel_max_arg, DefaultChannelMax))
    /\ chan_id = [h \in Handles |-> 0]
    /\ is_open = [h \in Handles |-> FALSE]
    /\ last_heartbeat_sent = 0
    /\ last_heartbeat_received = 0
    /\ prev_sent = "None"
    /\ prev_recv = "None"
    /\ now = 1
    /\ pc = "idle"
    /\ op = NoOp
    /\ frame = NoFrame
    /\ opened = FALSE
    /\ written = <<>>
    /\ hs_phase = "Disconnected"

\* every channel_max, heartbeats off
Init ==
    \E cm \in 1..MaxChannelMax :
        ConnectionInit(cm, None, 0)

\* every heartbeat interval, one channel_max
InitTune ==
    \E hb \in 0..MaxHeartbeat :
        ConnectionInit(MaxChannelMax, None, hb)

InitDefault == ConnectionInit(None, None, 0)

\* one channel_max, heartbeats off
InitStart == ConnectionInit(MaxChannelMax, None, 0)

\* ------------------------------------------------------------ frames
\* Tune(channel_max, frame_max, heartbeat); 0 leaves the choice to the client
Tunes == {Method("Tune", <<cm, 0, hb>>) : cm \in 0..MaxChannelMax, hb \in 0..MaxHeartbeat}
             \cup {Method("Tune", <<0, MaxFrameMax, 0>>)}
\* the Tunes of a broker that states a channel_max at most
TunesNoHeartbeat == {t \in Tunes : t.args[2] = 0 /\ t.args[3] = 0}
\* the channel-0 methods of _METHODSET the broker may send
\* Close(reply_code, reply_text, class_id, method_id)
ConnectionForced == Method("Close", <<320, "CONNECTION_FORCED", 0, 0>>)
Closes == {ConnectionForced, Method("Close", <<541, "INTERNAL_ERROR", 10, 40>>)}
\* Start(server_properties): the capabilities the server advertises as true,
\* and those it lists as false
Starts ==
    {Method("Start", <<on, off>>) :
        on \in SUBSET {"consumer_cancel_notify", "connection.blocked", "publisher_confirms"},
        off \in SUBSET {"authentication_failure_close"}}
\* Start of a server that advertises no capabilities
StartPlain == Method("Start", <<{}, {}>>)
InboundFrames ==
    {Method(m, <<>>) : m \in {"Secure", "OpenOk", "CloseOk", "Blocked"}}
        \cup Starts \cup Tunes \cup Closes
\* Transport.read_frame: a frame, a timeout, or an I/O error after which the
\* Transport reports itself connected (args <<1>>) or not (args <<0>>)
ReadTimeout == Method("timeout", <<>>)
ReadErrors == {Method("ioerror", <<c>>) : c \in {0, 1}}
\* every outcome of a read from a server that advertises no capabilities
ReadOutcomes ==
    (InboundFrames \ (Starts \ {StartPlain})) \cup {ReadTimeout} \cup ReadErrors
ReadOutcomesNoHeartbeat ==
    (ReadOutcomes \ (Tunes \cup Closes)) \cup TunesNoHeartbeat \cup {ConnectionForced}
\* the Tunes of a broker that states a heartbeat at most
TunesHeartbeat == {t \in Tunes : t.args[1] = 0 /\ t.args[2] = 0}
ReadOutcomesHeartbeat ==
    (ReadOutcomes \ (Tunes \cup Closes)) \cup TunesHeartbeat \cup {ConnectionForced}
\* the frames of the handshake of a broker that leaves every choice to the client
ReadOutcomesDefault == (ReadOutcomes \ Tunes) \cup {Method("Tune", <<0, 0, 0>>)}

\* StartOk(client_properties, ...)
\* the frames of the handshake of servers that advertise capabilities
ReadOutcomesStart == ReadOutcomesDefault \cup Starts

StartOk(properties) == Method("StartOk", <<properties>>)
TuneOk(cm, fm, hb) == Method("TuneOk", <<cm, fm, hb>>)
Open(virtual_host) == Method("Open", <<virtual_host, "", FALSE>>)
CloseOk == Method("CloseOk", <<>>)
\* Close(reply_code, reply_text, class_id, method_id) of close()'s defaults
Close == Method("Close", <<0, "", 0, 0>>)
Heartbeat == Method("Heartbeat", <<>>)
ChannelOpen(cid) == Method("Channel.Open", <<cid>>)
ChannelClose(cid) == Method("Channel.Close", <<cid>>)

virtual_host == "/"

\* ------------------------------------------------------------ handshake grammar
\* open-connection = S:START C:START-OK *challenge S:TUNE C:TUNE-OK C:OPEN S:OPEN-OK
HsNext(phase, m) ==
    CASE phase = "AwaitStart" /\ m = "Start" -> "AwaitSecureOrTune"
      [] phase = "AwaitSecureOrTune" /\ m = "Secure" -> "AwaitSecureOrTune"
      [] phase = "AwaitSecureOrTune" /\ m = "Tune" -> "AwaitOpenOk"
      [] phase = "AwaitOpenOk" /\ m = "OpenOk" -> "Open"
      [] OTHER -> "Violated"

\* ------------------------------------------------------------ the connected property
connected == transport = "connected"

\* ------------------------------------------------------------ collect
\* temp_list: the registered Channels other than the Connection, in registry order
temp_list == SelectSeq(channels, LAMBDA e : e.ch # 0)
ChannelIdsToCollect == [i \in 1..Len(temp_list) |-> temp_list[i].id]

\* Channel.collect, for the first n Channels of temp_list: the Channel is dead
\* and its id is back in the pool
ChannelsCollected(n) ==
    LET ids == SubSeq(ChannelIdsToCollect, 1, n)
        dead == {temp_list[i].ch : i \in 1..n}
    IN /\ chan_id' = [h \in Handles |-> IF h \in dead THEN 0 ELSE chan_id[h]]
       /\ is_open' = [h \in Handles |-> IF h \in dead THEN FALSE ELSE is_open[h]]
       /\ _avail_channel_ids' = Pack(avail_channel_ids \o ids)

\* where socket.error is raised in the try block: 0 nowhere, 1 in
\* transport.close(), k + 1 in the collect of the k-th Channel of temp_list
RaisesAt == 0..(Len(ChannelIdsToCollect) + 1)

\* the Channels collected before the except clause is entered
CollectedBefore(raises_at) ==
    CASE raises_at = 0 -> Len(ChannelIdsToCollect)
      [] raises_at = 1 -> 0
      [] OTHER -> raises_at - 2

\* the finally clause put after the try statement: it is skipped when
\* socket.error was raised
collect_finally_skipped(raises_at) ==
    /\ ChannelsCollected(CollectedBefore(raises_at))
    /\ transport' = IF raises_at = 0 THEN "None" ELSE transport
    /\ channels' = IF raises_at = 0 THEN ChannelsNone ELSE channels

collect(raises_at) ==
    /\ ChannelsCollected(CollectedBefore(raises_at))
    /\ transport' = "None"
    /\ channels' = ChannelsNone

\* ------------------------------------------------------------ handlers
Max(a, b) == IF a >= b THEN a ELSE b
Min(a, b) == IF a <= b THEN a ELSE b

\* without the override for a client that disabled heartbeats
negotiate_heartbeat_no_override(client_hb, server_hb) ==
    LET client == Or(client_hb, 0)
        server == Or(server_hb, 0)
    IN IF server = 0 \/ client = 0
       THEN Max(server, client)
       ELSE Min(server, client)

negotiate_heartbeat(client_hb, server_hb) ==
    LET client == Or(client_hb, 0)
        server == Or(server_hb, 0)
        hb == IF server = 0 \/ client = 0
              THEN Max(server, client)
              ELSE Min(server, client)
    IN IF client_hb = None \/ client_hb = 0 THEN 0 ELSE hb

\* the server's value taken as it is, 0 included
negotiate_channel_max_server(server_channel_max, prior) == server_channel_max

negotiate_channel_max(server_channel_max, prior) == Or(server_channel_max, prior)

negotiate_frame_max(server_frame_max, prior) == Or(server_frame_max, prior)

\* _on_start: the wanted capabilities the server advertises are added to
\* client_properties['capabilities'], and the key is removed when empty
_on_start(server_on, server_off) ==
    LET prior == IF client_properties.present THEN client_properties.capabilities ELSE {}
        cap == prior \cup {wanted_cap \in negotiate_capabilities : wanted_cap \in server_on}
    IN /\ client_properties' = IF cap = {} THEN NoCapabilities ELSE Capabilities(cap)
       /\ written' = <<StartOk(client_properties')>>
       /\ UNCHANGED <<client_heartbeat, channel_max, frame_max, heartbeat, handshake_complete,
                      transport, frame_writer, on_inbound_frame,
                      channels, _avail_channel_ids, chan_id, is_open>>

_on_secure ==
    /\ written' = <<>>
    /\ UNCHANGED conn_vars

\* _on_tune, and _on_tune_sent as the callback of its TuneOk
_on_tune(server_channel_max, server_frame_max, server_heartbeat) ==
    /\ channel_max' = negotiate_channel_max(server_channel_max, channel_max)
    /\ frame_max' = negotiate_frame_max(server_frame_max, frame_max)
    /\ heartbeat' = negotiate_heartbeat(client_heartbeat, server_heartbeat)
    /\ written' = <<TuneOk(channel_max', frame_max', heartbeat'), Open(virtual_host)>>
    /\ UNCHANGED <<client_heartbeat, client_properties, handshake_complete, transport, frame_writer, on_inbound_frame, channels, _avail_channel_ids, chan_id, is_open>>

_on_open_ok ==
    /\ handshake_complete' = TRUE
    /\ written' = <<>>
    /\ UNCHANGED <<client_heartbeat, client_properties, channel_max, frame_max, heartbeat,
                   transport, frame_writer, on_inbound_frame,
                   channels, _avail_channel_ids, chan_id, is_open>>

_on_close_ok(raises_at) ==
    /\ collect(raises_at)
    /\ UNCHANGED <<client_heartbeat, client_properties, channel_max, frame_max, heartbeat, handshake_complete,
                   frame_writer, on_inbound_frame>>

\* the error raised, and no CloseOk sent
_on_close_no_reply(raises_at) ==
    /\ written' = <<>>
    /\ _on_close_ok(raises_at)

\* _on_close: _x_close_ok sends CloseOk with _on_close_ok as its callback,
\* then the error for reply_code is raised
_on_close(raises_at) ==
    /\ written' = <<CloseOk>>
    /\ _on_close_ok(raises_at)

_on_blocked ==
    /\ written' = <<>>
    /\ UNCHANGED conn_vars

\* on_inbound_method for a channel-0 method: channels[0] is the Connection,
\* whose dispatch_method runs the handler of _setup_listeners
on_inbound_method(f, raises_at) ==
    CASE f.method = "Start" -> _on_start(f.args[1], f.args[2])
      [] f.method = "Secure" -> _on_secure
      [] f.method = "Tune" -> _on_tune(f.args[1], f.args[2], f.args[3])
      [] f.method = "OpenOk" -> _on_open_ok
      [] f.method = "Close" -> _on_close(raises_at)
      [] f.method = "CloseOk" -> _on_close_ok(raises_at) /\ written' = <<>>
      [] f.method = "Blocked" -> _on_blocked

\* what the handler of f raises
HandlerResult(f) == IF f.method = "Close" THEN "ConnectionError" ELSE "ok"

\* ------------------------------------------------------------ blocking_read
\* what blocking_read raises when Transport.read_frame gives r
ReadResult(r) ==
    CASE transport = "None" -> "AttributeError"
      [] transport = "closed" -> "IOError"
      [] r = ReadTimeout -> "timeout"
      [] r \in ReadErrors -> "IOError"
      [] on_inbound_frame = 0 -> "TypeError"
      [] channels = ChannelsNone -> "TypeError"
      [] OTHER -> HandlerResult(r)

\* the error blocking_read raises carries the arguments of the broker's Close
ReadValue(r) == IF ReadResult(r) = "ConnectionError" THEN r.args ELSE None

\* the frame handler has taken a frame: it counts it in bytes_recv
Received(r) == transport = "connected" /\ r \in InboundFrames /\ on_inbound_frame # 0

\* on_inbound_method has found the Connection in channels[0]
Dispatched(r) == Received(r) /\ channels # ChannelsNone

\* a Transport that gives itself up when a read times out
blocking_read_timeout_closes(r, raises_at) ==
    IF Dispatched(r)
    THEN /\ frame' = r
         /\ on_inbound_method(r, raises_at)
    ELSE /\ frame' = NoFrame
         /\ written' = <<>>
         /\ transport' = IF transport = "connected" /\ r \notin InboundFrames
                         THEN "closed" ELSE transport
         /\ UNCHANGED <<client_heartbeat, client_properties, channel_max, frame_max, heartbeat,
                        handshake_complete, frame_writer,
                        on_inbound_frame, channels, _avail_channel_ids, chan_id, is_open>>

blocking_read(r, raises_at) ==
    IF Dispatched(r)
    THEN /\ frame' = r
         /\ on_inbound_method(r, raises_at)
    ELSE /\ frame' = NoFrame
         /\ written' = <<>>
         /\ transport' = IF transport = "connected" /\ r \in ReadErrors /\ r.args[1] = 0
                         THEN "closed" ELSE transport
         /\ UNCHANGED <<client_heartbeat, client_properties, channel_max, frame_max, heartbeat,
                        handshake_complete, frame_writer,
                        on_inbound_frame, channels, _avail_channel_ids, chan_id, is_open>>

\* ------------------------------------------------------------ connect
\* connect() on a connected instance: the callback, nothing else
connect_connected ==
    /\ op' = Returned("connect", None, "ok", None)
    /\ opened' = FALSE
    /\ hs_phase' = "Disconnected"
    /\ UNCHANGED <<conn_vars, pc>>
    /\ Traffic(FALSE, FALSE)

\* connect() otherwise, up to the first test of the loop
\* connect_ok: Transport.connect() succeeds
connect_transport(connect_ok) ==
    /\ opened' = TRUE
    /\ hs_phase' = "AwaitStart"
    /\ Traffic(FALSE, FALSE)
    /\ UNCHANGED <<client_heartbeat, client_properties, channel_max, frame_max, heartbeat,
                   handshake_complete, channels, _avail_channel_ids, chan_id, is_open>>
    /\ IF connect_ok
       THEN /\ transport' = "connected"
            /\ on_inbound_frame' = 1
            /\ frame_writer' = 1
            /\ IF handshake_complete
               THEN pc' = "idle" /\ op' = Returned("connect", None, "ok", None)
               ELSE pc' = "connect" /\ op' = Returned("connect", None, "pending", None)
       ELSE /\ transport' = "closed"
            /\ UNCHANGED <<on_inbound_frame, frame_writer, pc>>
            /\ op' = Returned("connect", None, "ConnectionError", None)

\* without the test of the connected property
connect_always_opens(connect_ok) ==
    /\ pc = "idle"
    /\ frame' = NoFrame
    /\ written' = <<>>
    /\ connect_transport(connect_ok)

connect(connect_ok) ==
    /\ pc = "idle"
    /\ frame' = NoFrame
    /\ written' = <<>>
    /\ IF connected
       THEN connect_connected
       ELSE connect_transport(connect_ok)

\* one iteration of connect()'s loop: drain_events, then the loop test
connect_loop(r, raises_at) ==
    /\ pc = "connect"
    /\ opened' = FALSE
    /\ blocking_read(r, raises_at)
    /\ Traffic(written' # <<>>, Received(r))
    /\ hs_phase' = IF Dispatched(r) THEN HsNext(hs_phase, r.method) ELSE hs_phase
    /\ IF ReadResult(r) # "ok"
       THEN pc' = "idle" /\ op' = Returned("connect", None, ReadResult(r), ReadValue(r))
       ELSE IF handshake_complete'
            THEN pc' = "idle" /\ op' = Returned("connect", None, "ok", None)
            ELSE pc' = "connect" /\ op' = op

\* ------------------------------------------------------------ drain_events
drain_events(r, raises_at) ==
    /\ pc = "idle"
    /\ opened' = FALSE
    /\ blocking_read(r, raises_at)
    /\ Traffic(written' # <<>>, Received(r))
    /\ op' = Returned("drain_events", None, ReadResult(r), ReadValue(r))
    /\ hs_phase' = "Disconnected"
    /\ UNCHANGED pc

\* ------------------------------------------------------------ channel ids
\* the last id read and left in the pool
_get_free_channel_id_peek(pool) ==
    IF Len(pool) = 0
    THEN [result |-> "ResourceError", id |-> None, pool |-> pool]
    ELSE [result |-> "ok", id |-> pool[Len(pool)], pool |-> pool]

\* channel 1 handed out when the pool is empty
_get_free_channel_id_no_raise(pool) ==
    IF Len(pool) = 0
    THEN [result |-> "ok", id |-> 1, pool |-> pool]
    ELSE [result |-> "ok", id |-> pool[Len(pool)], pool |-> SubSeq(pool, 1, Len(pool) - 1)]

\* _get_free_channel_id: array.pop(), ResourceError on IndexError
_get_free_channel_id(pool) ==
    IF Len(pool) = 0
    THEN [result |-> "ResourceError", id |-> None, pool |-> pool]
    ELSE [result |-> "ok", id |-> pool[Len(pool)], pool |-> SubSeq(pool, 1, Len(pool) - 1)]

\* array.remove(x): the first occurrence of x is removed
Remove(pool, x) ==
    LET i == CHOOSE i \in 1..Len(pool) : pool[i] = x /\ \A j \in 1..(i - 1) : pool[j] # x
    IN SubSeq(pool, 1, i - 1) \o SubSeq(pool, i + 1, Len(pool))

\* _claim_channel_id: array.remove(channel_id), ConnectionError on ValueError
_claim_channel_id(pool, channel_id) ==
    IF channel_id \notin SeqToSet(pool)
    THEN [result |-> "ConnectionError", id |-> None, pool |-> pool]
    ELSE [result |-> "ok", id |-> channel_id, pool |-> Remove(pool, channel_id)]

\* Channel.__init__: the id is allocated when none is requested, else claimed
NewChannelId(pool, channel_id) ==
    IF channel_id = None
    THEN _get_free_channel_id(pool)
    ELSE _claim_channel_id(pool, channel_id)

\* channels[cid] = ch: a dict keeps the position of a key it already holds
Register(registry, cid, h) ==
    IF \E i \in 1..Len(registry) : registry[i].id = cid
    THEN [i \in 1..Len(registry) |->
             IF registry[i].id = cid THEN [id |-> cid, ch |-> h] ELSE registry[i]]
    ELSE Append(registry, [id |-> cid, ch |-> h])

\* channels.pop(cid, None)
Unregister(registry, cid) == SelectSeq(registry, LAMBDA e : e.id # cid)

FreeHandles == {h \in Handles : chan_id[h] = 0}
LiveHandles == {h \in Handles : chan_id[h] # 0}

\* ------------------------------------------------------------ channel
\* open_ok: the broker's Channel.OpenOk arrives before the read times out
\* channel() with the registry standing: the Channel registered for
\* channel_id, or a new one that is opened
channel_lookup(channel_id, open_ok) ==
       IF channel_id \in RegisteredIds
       THEN /\ op' = Returned("channel", channel_id, "ok", RegistryEntry(channel_id).ch)
            /\ written' = <<>>
            /\ UNCHANGED <<channels, _avail_channel_ids, chan_id, is_open>>
       ELSE LET got == NewChannelId(avail_channel_ids, channel_id)
                h == CHOOSE h \in FreeHandles : \A g \in FreeHandles : h <= g
            IN IF got.result # "ok"
               THEN /\ op' = Returned("channel", channel_id, got.result, None)
                    /\ written' = <<>>
                    /\ UNCHANGED <<channels, _avail_channel_ids, chan_id, is_open>>
               ELSE /\ FreeHandles # {}
                    /\ _avail_channel_ids' = Pack(got.pool)
                    /\ channels' = Register(channels, got.id, h)
                    /\ chan_id' = [chan_id EXCEPT ![h] = got.id]
                    /\ IF frame_writer = 0
                       THEN /\ written' = <<>>
                            /\ is_open' = is_open
                            /\ op' = Returned("channel", channel_id, "TypeError", None)
                       ELSE IF transport # "connected"
                       THEN /\ written' = <<>>
                            /\ is_open' = is_open
                            /\ op' = Returned("channel", channel_id, "IOError", None)
                       ELSE /\ written' = <<ChannelOpen(got.id)>>
                            /\ is_open' = [is_open EXCEPT ![h] = open_ok]
                            /\ op' = IF open_ok
                                     THEN Returned("channel", channel_id, "ok", h)
                                     ELSE Returned("channel", channel_id, "timeout", None)

\* without the test of self.channels
channel_no_test(channel_id, open_ok) ==
    /\ pc = "idle"
    /\ frame' = NoFrame
    /\ opened' = FALSE
    /\ hs_phase' = "Disconnected"
    /\ UNCHANGED <<pc, client_heartbeat, client_properties, channel_max, frame_max, heartbeat,
                   handshake_complete, transport, frame_writer,
                   on_inbound_frame>>
    /\ channel_lookup(channel_id, open_ok)
    /\ Traffic(written' # <<>>, written' # <<>> /\ open_ok)

channel(channel_id, open_ok) ==
    /\ pc = "idle"
    /\ frame' = NoFrame
    /\ opened' = FALSE
    /\ hs_phase' = "Disconnected"
    /\ UNCHANGED <<pc, client_heartbeat, client_properties, channel_max, frame_max, heartbeat,
                   handshake_complete, transport, frame_writer,
                   on_inbound_frame>>
    /\ IF channels = ChannelsNone
       THEN /\ op' = Returned("channel", channel_id, "RecoverableConnectionError", None)
            /\ written' = <<>>
            /\ UNCHANGED <<channels, _avail_channel_ids, chan_id, is_open>>
       ELSE channel_lookup(channel_id, open_ok)
    /\ Traffic(written' # <<>>, written' # <<>> /\ open_ok)

\* ------------------------------------------------------------ Channel.close
\* Channel.close of the live Channel h: Channel.Close is sent, and on
\* Channel.CloseOk the Channel is collected: it leaves the registry and its
\* id goes back to the pool
channel_close(h) ==
    /\ pc = "idle"
    /\ chan_id[h] # 0
    /\ channels # ChannelsNone
    /\ frame' = NoFrame
    /\ opened' = FALSE
    /\ hs_phase' = "Disconnected"
    /\ UNCHANGED <<pc, client_heartbeat, client_properties, channel_max, frame_max, heartbeat,
                   handshake_complete, transport, frame_writer,
                   on_inbound_frame>>
    /\ IF frame_writer = 0 \/ transport # "connected"
       THEN /\ written' = <<>>
            /\ op' = Returned("Channel.close", chan_id[h], "IOError", None)
            /\ UNCHANGED <<channels, _avail_channel_ids, chan_id, is_open>>
       ELSE /\ written' = <<ChannelClose(chan_id[h])>>
            /\ op' = Returned("Channel.close", chan_id[h], "ok", None)
            /\ channels' = Unregister(channels, chan_id[h])
            /\ _avail_channel_ids' = Pack(Append(avail_channel_ids, chan_id[h]))
            /\ chan_id' = [chan_id EXCEPT ![h] = 0]
            /\ is_open' = [is_open EXCEPT ![h] = FALSE]
    /\ Traffic(written' # <<>>, written' # <<>>)

\* ------------------------------------------------------------ close
\* close() with nothing to close
close_returns ==
    /\ written' = <<>>
    /\ op' = Returned("close", None, "ok", None)
    /\ UNCHANGED pc

\* send_method(Close, wait=CloseOk), up to the first drain_events of the wait
close_send ==
    IF frame_writer = 0
    THEN /\ written' = <<>>
         /\ op' = Returned("close", None, "TypeError", None)
         /\ UNCHANGED pc
    ELSE IF transport # "connected"
    THEN /\ written' = <<>>
         /\ op' = Returned("close", None, "IOError", None)
         /\ UNCHANGED pc
    ELSE /\ written' = <<Close>>
         /\ op' = Returned("close", None, "pending", None)
         /\ pc' = "close"

\* without the test of _transport
close_always_sends ==
    /\ pc = "idle"
    /\ frame' = NoFrame
    /\ opened' = FALSE
    /\ hs_phase' = "Disconnected"
    /\ UNCHANGED conn_vars
    /\ close_send
    /\ Traffic(written' # <<>>, FALSE)

close ==
    /\ pc = "idle"
    /\ frame' = NoFrame
    /\ opened' = FALSE
    /\ hs_phase' = "Disconnected"
    /\ UNCHANGED conn_vars
    /\ IF transport = "None"
       THEN close_returns
       ELSE close_send
    /\ Traffic(written' # <<>>, FALSE)

\* one iteration of the wait for CloseOk: drain_events, then the test of the
\* promise that the dispatch of CloseOk fulfils
close_loop(r, raises_at) ==
    /\ pc = "close"
    /\ opened' = FALSE
    /\ hs_phase' = "Disconnected"
    /\ blocking_read(r, raises_at)
    /\ Traffic(written' # <<>>, Received(r))
    /\ IF ReadResult(r) # "ok"
       THEN pc' = "idle" /\ op' = Returned("close", None, ReadResult(r), ReadValue(r))
       ELSE IF r.method = "CloseOk"
            THEN pc' = "idle" /\ op' = Returned("close", None, "ok", None)
            ELSE pc' = "close" /\ op' = op

\* ------------------------------------------------------------ heartbeat_tick
\* heartbeats are off: nothing is done
heartbeat_tick_returns ==
    /\ written' = <<>>
    /\ op' = Returned("heartbeat_tick", None, "ok", None)
    /\ UNCHANGED <<last_heartbeat_sent, last_heartbeat_received, prev_sent, prev_recv>>

\* a heartbeat sent as soon as one interval has passed
heartbeat_tick_checks_early ==
    LET sent == IF prev_sent # "equal" THEN now ELSE last_heartbeat_sent
        received == IF prev_recv # "equal" THEN now ELSE last_heartbeat_received
        due == now >= sent + heartbeat
        missed == received # 0 /\ received + 2 * heartbeat < now
    IN /\ last_heartbeat_received' = received
       /\ prev_recv' = "equal"
       /\ IF due /\ (frame_writer = 0 \/ transport # "connected")
          THEN /\ written' = <<>>
               /\ last_heartbeat_sent' = sent
               /\ prev_sent' = "equal"
               /\ op' = Returned("heartbeat_tick", None,
                                 IF frame_writer = 0 THEN "TypeError" ELSE "IOError", None)
          ELSE /\ written' = IF due THEN <<Heartbeat>> ELSE <<>>
               /\ last_heartbeat_sent' = IF due THEN now ELSE sent
               /\ prev_sent' = IF due THEN "behind" ELSE "equal"
               /\ op' = Returned("heartbeat_tick", None,
                                 IF missed THEN "ConnectionForced" ELSE "ok", None)

\* one missed interval taken for a dead broker
heartbeat_tick_checks_one_interval ==
    LET sent == IF prev_sent # "equal" THEN now ELSE last_heartbeat_sent
        received == IF prev_recv # "equal" THEN now ELSE last_heartbeat_received
        due == now > sent + heartbeat
        missed == received # 0 /\ received + 1 * heartbeat < now
    IN /\ last_heartbeat_received' = received
       /\ prev_recv' = "equal"
       /\ IF due /\ (frame_writer = 0 \/ transport # "connected")
          THEN /\ written' = <<>>
               /\ last_heartbeat_sent' = sent
               /\ prev_sent' = "equal"
               /\ op' = Returned("heartbeat_tick", None,
                                 IF frame_writer = 0 THEN "TypeError" ELSE "IOError", None)
          ELSE /\ written' = IF due THEN <<Heartbeat>> ELSE <<>>
               /\ last_heartbeat_sent' = IF due THEN now ELSE sent
               /\ prev_sent' = IF due THEN "behind" ELSE "equal"
               /\ op' = Returned("heartbeat_tick", None,
                                 IF missed THEN "ConnectionForced" ELSE "ok", None)

\* the samples of the byte counters, the heartbeat sent when one is due, and
\* the test for two missed intervals; monotonic() gives now all through
heartbeat_tick_checks ==
    LET sent == IF prev_sent # "equal" THEN now ELSE last_heartbeat_sent
        received == IF prev_recv # "equal" THEN now ELSE last_heartbeat_received
        due == now > sent + heartbeat
        missed == received # 0 /\ received + 2 * heartbeat < now
    IN /\ last_heartbeat_received' = received
       /\ prev_recv' = "equal"
       /\ IF due /\ (frame_writer = 0 \/ transport # "connected")
          THEN /\ written' = <<>>
               /\ last_heartbeat_sent' = sent
               /\ prev_sent' = "equal"
               /\ op' = Returned("heartbeat_tick", None,
                                 IF frame_writer = 0 THEN "TypeError" ELSE "IOError", None)
          ELSE /\ written' = IF due THEN <<Heartbeat>> ELSE <<>>
               /\ last_heartbeat_sent' = IF due THEN now ELSE sent
               /\ prev_sent' = IF due THEN "behind" ELSE "equal"
               /\ op' = Returned("heartbeat_tick", None,
                                 IF missed THEN "ConnectionForced" ELSE "ok", None)

\* without the test of self.heartbeat
heartbeat_tick_always_checks ==
    /\ pc = "idle"
    /\ frame' = NoFrame
    /\ opened' = FALSE
    /\ hs_phase' = "Disconnected"
    /\ UNCHANGED <<conn_vars, pc, now>>
    /\ heartbeat_tick_checks

heartbeat_tick ==
    /\ pc = "idle"
    /\ frame' = NoFrame
    /\ opened' = FALSE
    /\ hs_phase' = "Disconnected"
    /\ UNCHANGED <<conn_vars, pc, now>>
    /\ IF heartbeat = None \/ heartbeat = 0
       THEN heartbeat_tick_returns
       ELSE heartbeat_tick_checks

\* a second passes between two calls
sleep ==
    /\ now < MaxTime
    /\ now' = now + 1
    /\ op' = Returned("sleep", None, "ok", None)
    /\ frame' = NoFrame
    /\ written' = <<>>
    /\ opened' = FALSE
    /\ UNCHANGED <<conn_vars, pc, hs_phase,
                   last_heartbeat_sent, last_heartbeat_received, prev_sent, prev_recv>>

\* ------------------------------------------------------------ the system
\* collect runs in the handlers of Close and CloseOk
CollectChoices(r) == IF r.method \in {"Close", "CloseOk"} THEN RaisesAt ELSE {0}
\* the ids a caller asks for: none, or one up to just above the largest channel_max
RequestedIds == {None} \cup 1..(MaxChannelMax + 1)

Connect == \E connect_ok \in BOOLEAN : connect(connect_ok)
ConnectLoop(R) == \E r \in R : \E raises_at \in CollectChoices(r) : connect_loop(r, raises_at)
DrainEvents(R) == \E r \in R : \E raises_at \in CollectChoices(r) : drain_events(r, raises_at)
ChannelCall == \E channel_id \in RequestedIds, open_ok \in BOOLEAN : channel(channel_id, open_ok)
ChannelClosed == \E h \in Handles : channel_close(h)

Next ==
    \/ Connect
    \/ ConnectLoop(ReadOutcomesNoHeartbeat)
    \/ DrainEvents(ReadOutcomesNoHeartbeat)
    \/ ChannelCall
    \/ ChannelClosed

Spec == Init /\ [][Next]_vars

\* the handshake alone, against every Tune
NextHandshake ==
    \/ Connect
    \/ ConnectLoop(ReadOutcomes)
    \/ DrainEvents(ReadOutcomes)

SpecTune == InitTune /\ [][NextHandshake]_vars

\* the handshake of a Connection built with the default options
NextDefault ==
    \/ Connect
    \/ ConnectLoop(ReadOutcomesDefault)
    \/ DrainEvents(ReadOutcomesDefault)

SpecDefault == InitDefault /\ [][NextDefault]_vars

\* the handshake against servers that advertise capabilities
NextStart ==
    \/ Connect
    \/ ConnectLoop(ReadOutcomesStart)
    \/ DrainEvents(ReadOutcomesStart)

SpecStart == InitStart /\ [][NextStart]_vars

\* connect(), drain_events() and close()
CloseCall == close
CloseLoop(R) == \E r \in R : \E raises_at \in CollectChoices(r) : close_loop(r, raises_at)

NextClose ==
    \/ Connect
    \/ ConnectLoop(ReadOutcomesNoHeartbeat)
    \/ DrainEvents(ReadOutcomesNoHeartbeat)
    \/ CloseCall
    \/ CloseLoop(ReadOutcomesNoHeartbeat)

SpecClose == Init /\ [][NextClose]_vars

\* connect(), drain_events() and heartbeat_tick() as seconds pass
HeartbeatTick == heartbeat_tick
Sleep == sleep

NextHeartbeat ==
    \/ Connect
    \/ ConnectLoop(ReadOutcomesHeartbeat)
    \/ DrainEvents(ReadOutcomesHeartbeat)
    \/ HeartbeatTick
    \/ Sleep

SpecHeartbeat == InitTune /\ [][NextHeartbeat]_vars

\* ------------------------------------------------------------ steps
\* the step is a call of connect(), of channel()
ConnectCalled == pc = "idle" /\ op'.name = "connect"
ChannelCalled == pc = "idle" /\ op'.name = "channel"
DrainCalled == pc = "idle" /\ op'.name = "drain_events"
CloseCalled == pc = "idle" /\ op'.name = "close"
TickCalled == pc = "idle" /\ op'.name = "heartbeat_tick"
\* the tick has called the frame writer: the frame was written, or the
\* write raised
TickCalledWriter ==
    TickCalled /\ (written' # <<>> \/ op'.result = "IOError")
Wrote(m) == \E i \in 1..Len(written') : written'[i].method = m

\* ------------------------------------------------------------ C1
\* C1: whenever connect() has returned without an error, the
\* handshake-complete flag is true, also when an earlier connect() on the
\* same instance failed part-way through the handshake.
C1_ConnectReturnsHandshaken ==
    (op.name = "connect" /\ op.result = "ok") => handshake_complete

\* ------------------------------------------------------------ C2
\* C2: with default options and a broker that sends Start, Tune(0,0,0),
\* OpenOk, the client writes StartOk in reply to Start and to nothing else,
\* TuneOk(65535, 131072, 0) in reply to Tune and to nothing else, Open("/",
\* "", false) right after TuneOk and nowhere else; handshake-complete
\* becomes true only when OpenOk is handled, and connect() then returns.
C2_Step ==
    /\ frame'.method = "Start" => written' = <<StartOk(NoCapabilities)>>
    /\ frame' = Method("Tune", <<0, 0, 0>>) =>
           /\ Len(written') = 2
           /\ written'[1].method = "TuneOk" /\ written'[1].args = <<65535, 131072, 0>>
           /\ written'[2].method = "Open" /\ written'[2].args = <<"/", "", FALSE>>
    /\ Wrote("StartOk") => frame'.method = "Start"
    /\ Wrote("TuneOk") => frame'.method = "Tune"
    /\ Wrote("Open") => frame'.method = "Tune"
    /\ frame'.method = "OpenOk" => written' = <<>> /\ handshake_complete'
    /\ (~handshake_complete /\ handshake_complete') => frame'.method = "OpenOk"
    /\ (pc = "connect" /\ frame'.method = "OpenOk") =>
           pc' = "idle" /\ op' = Returned("connect", None, "ok", None)
    /\ (pc = "connect" /\ pc' = "idle" /\ op'.result = "ok") => frame'.method = "OpenOk"

C2_DefaultHandshake ==
    /\ [][C2_Step]_vars
    /\ [](hs_phase = "Open" =>
              /\ handshake_complete /\ pc = "idle" /\ op = Returned("connect", None, "ok", None)
              /\ channel_max = 65535 /\ frame_max = 131072 /\ heartbeat = 0)

\* the handshake Start, Tune(0,0,0), OpenOk has just completed
C2_Witness ==
    /\ hs_phase = "Open" /\ frame.method = "OpenOk"
    /\ op = Returned("connect", None, "ok", None)
    /\ channel_max = 65535 /\ frame_max = 131072 /\ heartbeat = 0

\* ------------------------------------------------------------ C3
\* C3: when the broker sends, during connect(), a channel-0 method that is
\* not the next step of Start, [Secure], Tune, OpenOk, connect() fails with
\* an error and the handshake-complete flag is not set.
C3_OutOfSequenceFails ==
    hs_phase = "Violated" =>
        /\ ~handshake_complete
        /\ ~(op.name = "connect" /\ op.result = "ok")

\* ------------------------------------------------------------ C4
\* C4: connect() on a connected instance opens no transport, replaces
\* neither the frame dispatcher nor the frame writer, reads no frame, writes
\* no frame and returns at once without an error.
C4_Step ==
    (ConnectCalled /\ transport = "connected") =>
        /\ ~opened'
        /\ transport' = transport
        /\ on_inbound_frame' = on_inbound_frame
        /\ frame_writer' = frame_writer
        /\ frame' = NoFrame
        /\ written' = <<>>
        /\ pc' = "idle"
        /\ op'.result = "ok"
        /\ handshake_complete' = handshake_complete

C4_ConnectIdempotent == [][C4_Step]_vars

\* connect() has returned from a call on a connected, handshaken instance
C4_Witness ==
    /\ op = Returned("connect", None, "ok", None)
    /\ hs_phase = "Disconnected"
    /\ transport = "connected"
    /\ handshake_complete

\* ------------------------------------------------------------ C5
\* C5: the heartbeat the Tune handler computes is 0 when the client's is 0,
\* else the client's when the server's is 0, else the smaller of the two,
\* and TuneOk carries it.
C5_Expected(client, server) ==
    IF client = 0 THEN 0
    ELSE IF server = 0 THEN client
    ELSE IF client <= server THEN client ELSE server

C5_Step ==
    frame'.method = "Tune" =>
        /\ heartbeat' = C5_Expected(client_heartbeat, frame'.args[3])
        /\ written'[1].method = "TuneOk"
        /\ written'[1].args[3] = C5_Expected(client_heartbeat, frame'.args[3])

C5_HeartbeatNegotiation ==
    /\ [][C5_Step]_vars
    /\ [](/\ negotiate_heartbeat(0, 60) = 0
          /\ negotiate_heartbeat(30, 0) = 30
          /\ negotiate_heartbeat(30, 60) = 30
          /\ negotiate_heartbeat(60, 30) = 30)

\* Tune was handled by a client whose heartbeat is larger than the server's
C5_Witness ==
    /\ frame.method = "Tune"
    /\ client_heartbeat > frame.args[3] /\ frame.args[3] > 0
    /\ heartbeat = frame.args[3]
    /\ written[1].method = "TuneOk" /\ written[1].args[3] = heartbeat

\* ------------------------------------------------------------ C6
\* C6: after the Tune handler has run, the channel-id pool holds exactly the
\* ids of [1, channel_max] for the negotiated channel_max.
C6_PoolRebuiltAtTune ==
    (frame.method = "Tune" /\ hs_phase = "AwaitOpenOk") =>
        SeqToSet(avail_channel_ids) = 1..channel_max

\* ------------------------------------------------------------ C7
\* C7: an id that channel() allocates is held by no Channel and leaves the
\* pool; a claim of an id fails with a connection error exactly when the id
\* is not in the pool; no two live Channels hold the same id.
LiveIds == {chan_id[h] : h \in LiveHandles}
NewHandles == {h \in Handles : chan_id[h] = 0 /\ chan_id'[h] # 0}

C7_Step ==
    ChannelCalled =>
        /\ (op'.arg = None /\ channels # ChannelsNone) =>
               \/ /\ op'.result = "ResourceError"
                  /\ Len(avail_channel_ids) = 0
                  /\ NewHandles = {}
               \/ /\ op'.result # "ResourceError"
                  /\ \E h \in NewHandles :
                        /\ NewHandles = {h}
                        /\ chan_id'[h] \in SeqToSet(avail_channel_ids)
                        /\ chan_id'[h] \notin LiveIds
                        /\ chan_id'[h] \notin RegisteredIds
                        /\ chan_id'[h] \notin SeqToSet(avail_channel_ids')
                        /\ Len(avail_channel_ids') = Len(avail_channel_ids) - 1
        /\ (op'.arg # None /\ channels # ChannelsNone /\ op'.arg \notin RegisteredIds) =>
               /\ op'.result = "ConnectionError" <=> op'.arg \notin SeqToSet(avail_channel_ids)
               /\ op'.result # "ConnectionError" =>
                      /\ \E h \in NewHandles : NewHandles = {h} /\ chan_id'[h] = op'.arg
                      /\ op'.arg \notin SeqToSet(avail_channel_ids')

C7_NoSharedId ==
    \A h, g \in LiveHandles : h # g => chan_id[h] # chan_id[g]

C7_AllocateAndClaim ==
    /\ [][C7_Step]_vars
    /\ [](C7_NoSharedId /\ LiveIds \cap SeqToSet(avail_channel_ids) = {})

\* an id was allocated while another Channel was open
C7_Witness ==
    /\ op.name = "channel" /\ op.arg = None /\ op.result = "ok"
    /\ Cardinality(LiveHandles) = 2
    /\ chan_id[op.value] # 0

\* ------------------------------------------------------------ C8
\* C8: while the registry stands, the pool and the ids of the registered
\* Channels are disjoint and together are exactly [1, channel_max].
C8_PoolPartition ==
    channels # ChannelsNone =>
        /\ SeqToSet(avail_channel_ids) \cap OpenIds = {}
        /\ SeqToSet(avail_channel_ids) \cup OpenIds = 1..channel_max

\* ------------------------------------------------------------ C9
\* C9: every open Channel has an id in [1, channel_max] and no more than
\* channel_max Channels are open at a time.
IsOpenIds == {chan_id[h] : h \in {g \in LiveHandles : is_open[g]}}

C9_OpenIdsInRange ==
    /\ IsOpenIds \subseteq 1..channel_max
    /\ Cardinality({g \in LiveHandles : is_open[g]}) <= channel_max

\* ------------------------------------------------------------ C10
\* C10 as stated: with the pool empty, channel() without an id fails with
\* ResourceError and changes nothing.
C10_Unchanged ==
    /\ written' = <<>>
    /\ UNCHANGED <<conn_vars, pc>>

C11_Step ==
    frame'.method = "Close" =>
        /\ written' = <<CloseOk>>
        /\ op'.result = "ConnectionError"
        /\ op'.value = frame'.args

C11_BrokerClose == [][C11_Step]_vars

\* drain_events() on a handshaken instance has read Close(320,
\* "CONNECTION_FORCED", 0, 0), written CloseOk and raised the error
C11_Witness ==
    /\ frame = ConnectionForced
    /\ written = <<CloseOk>>
    /\ handshake_complete
    /\ op.name = "drain_events" /\ op.result = "ConnectionError"
    /\ op.value[1] = 320

\* ------------------------------------------------------------ C12
\* C12: while close() waits for CloseOk, a received method other than CloseOk
\* is discarded: nothing is written for it, the wait goes on without an
\* error, and it changes no state of the connection.
C12_OthersDiscarded ==
    [][(pc = "close" /\ frame' # NoFrame /\ frame'.method # "CloseOk") =>
           (written' = <<>> /\ pc' = "close" /\ UNCHANGED conn_vars)]_vars

\* ------------------------------------------------------------ C13
\* C13: once collect() has run (the registry is None), the instance has no
\* transport and does not report itself connected, whatever is called
\* afterwards.
C13_ClosedIsTerminal ==
    channels = ChannelsNone => (transport = "None" /\ ~connected)

\* ------------------------------------------------------------ C14
\* C14: when connect(), drain_events() or heartbeat_tick() raises a fatal
\* error (the broker's Close, missed heartbeats, a read error, a failed
\* handshake), both the transport and the channel map are cleared.
FatalResults == {"ConnectionError", "ConnectionForced", "IOError", "TypeError", "AttributeError"}

C14_FatalPathsCollect ==
    [][(op'.name \in {"connect", "drain_events", "heartbeat_tick"} /\ op' # op
            /\ op'.result \in FatalResults) =>
           (transport' = "None" /\ channels' = ChannelsNone)]_vars

C16_DisabledTickIsNoOp ==
    [][(TickCalled /\ heartbeat = 0) =>
           /\ written' = <<>>
           /\ op'.result = "ok"
           /\ UNCHANGED <<conn_vars, last_heartbeat_sent, last_heartbeat_received,
                          prev_sent, prev_recv>>]_vars

\* a tick on a connected instance with heartbeat 0, seconds after the handshake
C16_Witness ==
    /\ op = Returned("heartbeat_tick", None, "ok", None)
    /\ heartbeat = 0
    /\ connected /\ handshake_complete
    /\ now >= 5
    /\ last_heartbeat_received = 0 /\ prev_recv = "None"

\* ------------------------------------------------------------ C17
\* C17: close() on an instance whose transport is gone sends nothing, raises
\* nothing and changes nothing; a close() that has completed with CloseOk
\* leaves the transport gone, so that every further close() is such a call.
C17_Step ==
    /\ (CloseCalled /\ transport = "None") =>
           /\ written' = <<>>
           /\ op' = Returned("close", None, "ok", None)
           /\ UNCHANGED <<conn_vars, pc>>
    /\ (pc = "close" /\ pc' = "idle" /\ op'.result = "ok") =>
           (frame' = CloseOk /\ transport' = "None")

C17_CloseIdempotent == [][C17_Step]_vars

\* close() has returned at once on a handshaken instance that a completed
\* close handshake has collected
C17_Witness ==
    /\ op = Returned("close", None, "ok", None)
    /\ frame = NoFrame /\ written = <<>>
    /\ transport = "None" /\ channels = ChannelsNone
    /\ handshake_complete /\ frame_writer # 0

\* ------------------------------------------------------------ C18
\* C18: whenever collect() runs (in the handlers of Close and CloseOk), no
\* transport error comes out of it and it ends with the transport and the
\* registry cleared, also when transport.close() or the collect of a
\* Channel raised socket.error.
C18_Step ==
    frame'.method \in {"Close", "CloseOk"} =>
        /\ transport' = "None"
        /\ channels' = ChannelsNone
        /\ op'.result # "IOError"

C18_CollectNeverFails == [][C18_Step]_vars

\* collect() has ended with a live Channel left: socket.error was raised
\* before that Channel was collected, and swallowed
C18_Witness ==
    /\ frame = CloseOk
    /\ op = Returned("drain_events", None, "ok", None)
    /\ transport = "None" /\ channels = ChannelsNone
    /\ LiveHandles # {}

\* ------------------------------------------------------------ C19
\* C19: channel(id) for an id that is registered returns the Channel
\* registered for it, writes no frame and changes nothing.
C19_Step ==
    \A i \in 1..Len(channels) :
        (ChannelCalled /\ op'.arg = channels[i].id) =>
            /\ op' = Returned("channel", channels[i].id, "ok", channels[i].ch)
            /\ written' = <<>>
            /\ UNCHANGED <<conn_vars, pc>>

C19_RegisteredChannelReturned == [][C19_Step]_vars

\* channel(id) has returned the open Channel that holds id, with no frame written
C19_Witness ==
    /\ op.name = "channel" /\ op.result = "ok" /\ op.arg # None
    /\ written = <<>>
    /\ op.value \in LiveHandles
    /\ chan_id[op.value] = op.arg /\ is_open[op.value]
    /\ channels # ChannelsNone /\ RegistryEntry(op.arg).ch = op.value

\* ------------------------------------------------------------ C20
\* C20: with the registry torn down, channel() fails with
\* RecoverableConnectionError, for every id asked or none, takes no id from
\* the pool and writes no frame.
C20_Step ==
    (ChannelCalled /\ channels = ChannelsNone) =>
        /\ op'.result = "RecoverableConnectionError"
        /\ written' = <<>>
        /\ UNCHANGED <<conn_vars, pc>>

C20_ClosedRegistryRefuses == [][C20_Step]_vars

\* channel() has failed on a collected instance whose pool still has ids
C20_Witness ==
    /\ op.name = "channel" /\ op.result = "RecoverableConnectionError"
    /\ channels = ChannelsNone
    /\ Len(avail_channel_ids) > 0

\* ------------------------------------------------------------ C21
\* C21: the client_properties of StartOk hold exactly the capabilities of
\* the negotiation table that the server of the Start advertises, and no
\* 'capabilities' key when there is none.
C21_Expected(server_on) ==
    LET cap == {k \in negotiate_capabilities : k \in server_on}
    IN IF cap = {} THEN NoCapabilities ELSE Capabilities(cap)

C21_CapabilitiesNegotiated ==
    [][frame'.method = "Start" =>
           written' = <<StartOk(C21_Expected(frame'.args[1]))>>]_vars

\* ------------------------------------------------------------ C22
\* C22: a drain_events() that ends in the transport's timeout raises that
\* timeout, has read and written nothing and leaves the connection and its
\* heartbeat fields as they were.
C22_Step ==
    (DrainCalled /\ op'.result = "timeout") =>
        /\ frame' = NoFrame
        /\ written' = <<>>
        /\ UNCHANGED <<conn_vars, pc, last_heartbeat_sent, last_heartbeat_received,
                       prev_sent, prev_recv>>

C22_TimeoutLeavesState == [][C22_Step]_vars

\* drain_events() has timed out on a handshaken instance with heartbeats on
\* and bytes received since the last tick; the instance is still connected
C22_Witness ==
    /\ op = Returned("drain_events", None, "timeout", None)
    /\ connected /\ handshake_complete
    /\ heartbeat = 2 /\ last_heartbeat_received > 0 /\ prev_recv = "behind"

\* ------------------------------------------------------------ C23
\* C23 as stated: with heartbeat > 0 a tick writes one heartbeat frame and
\* sets last_heartbeat_sent to now exactly when, after the samples,
\* now > last_heartbeat_sent + heartbeat; a first tick, or one that finds
\* bytes_sent changed, sets last_heartbeat_sent to now and writes nothing.
C23_Sampled == IF prev_sent # "equal" THEN now ELSE last_heartbeat_sent

C23_Step ==
    /\ now > C23_Sampled + heartbeat =>
           (written' = <<Heartbeat>> /\ last_heartbeat_sent' = now)
    /\ ~(now > C23_Sampled + heartbeat) =>
           (written' = <<>> /\ last_heartbeat_sent' = C23_Sampled)
    /\ prev_sent # "equal" =>
           (written' = <<>> /\ last_heartbeat_sent' = now)

C24_Step ==
    frame'.method \in {"Close", "CloseOk"} =>
        /\ channels' = ChannelsNone
        /\ \A i \in 1..Len(temp_list) : chan_id'[temp_list[i].ch] = 0
        /\ Unpack(_avail_channel_ids') = avail_channel_ids \o ChannelIdsToCollect

C24_EveryChannelCollected == [][C24_Step]_vars

\* ------------------------------------------------------------ C25
\* C25: once collect() has cleared the transport, heartbeat_tick() hands no
\* heartbeat frame to the frame writer that was bound to that transport.
C25_NoWriteAfterCollect ==
    [][(transport = "None" /\ channels = ChannelsNone) => ~TickCalledWriter]_vars
====
